---------------------------- MODULE Spec2Model ----------------------------
(***************************************************************************)
(* A model of the digest converter: scripts/to-wechat-html.ts (the digest  *)
(* parser parseDigestMarkdown, the renderer renderWechatHtml, the          *)
(* conversion pipeline and the command-line entry points) and              *)
(* scripts/gen-cover.ts (parseCoverData and its pipeline).                 *)
(*                                                                         *)
(* Text is a sequence of characters.  An ASCII character is the string of  *)
(* that character; a character outside ASCII is the string "<U+XXXX>" of   *)
(* its code point, so that startsWith, includes, split and the regular     *)
(* expressions of the source are computed character by character.          *)
(***************************************************************************)
EXTENDS Integers, Sequences, FiniteSets, TLC

-----------------------------------------------------------------------------
(* Characters outside ASCII that the source names in its literals.         *)

cGold    == "<U+1F947>"   \* 🥇
cSilver  == "<U+1F948>"   \* 🥈
cBronze  == "<U+1F949>"   \* 🥉
cBulb    == "<U+1F4A1>"   \* 💡
cTag     == "<U+1F3F7>"   \* 🏷
cVS16    == "<U+FE0F>"    \* variation selector 16, the second character of 🏷️
cNews    == "<U+1F4F0>"   \* 📰
cRobot   == "<U+1F916>"   \* 🤖
cEmDash  == "<U+2014>"    \* —
cMidDot  == "<U+00B7>"    \* ·
cFullComma == "<U+FF0C>"  \* ，
cFullColon == "<U+FF1A>"  \* ：
cBacktick  == "<U+0060>"  \* the backquote, which a string of this language cannot hold

sKandian  == <<"<U+4ECA>", "<U+65E5>", "<U+770B>", "<U+70B9>">>   \* 今日看点
sBidu     == <<"<U+4ECA>", "<U+65E5>", "<U+5FC5>", "<U+8BFB>">>   \* 今日必读
sGailan   == <<"<U+6570>", "<U+636E>", "<U+6982>", "<U+89C8>">>   \* 数据概览
sBiaoqian == <<"<U+8BDD>", "<U+9898>", "<U+6807>", "<U+7B7E>">>   \* 话题标签
sLaizi    == <<"<U+6765>", "<U+81EA>">>                           \* 来自
sWhyRead  == <<"<U+4E3A>", "<U+4EC0>", "<U+4E48>", "<U+503C>", "<U+5F97>", "<U+8BFB>">> \* 为什么值得读
sDongdian == <<"<U+61C2>", "<U+70B9>", "<U+513F>", "A", "I">>     \* 懂点儿AI

-----------------------------------------------------------------------------
(* String primitives of the language, on sequences of characters.          *)

IsSpace(c) == c \in {" ", "\t"}
IsDigit(c) == c \in {"0", "1", "2", "3", "4", "5", "6", "7", "8", "9"}

Drop(s, k) == SubSeq(s, k + 1, Len(s))

StartsWith(s, p) == Len(s) >= Len(p) /\ SubSeq(s, 1, Len(p)) = p

EndsWith(s, p) == Len(s) >= Len(p) /\ SubSeq(s, Len(s) - Len(p) + 1, Len(s)) = p

\* The positions at which p occurs in s.
Occurrences(s, p) == {k \in 1..(Len(s) - Len(p) + 1) : SubSeq(s, k, k + Len(p) - 1) = p}

Includes(s, p) == Occurrences(s, p) # {}

Min(S) == CHOOSE k \in S : \A j \in S : k <= j

\* String.prototype.trim
RECURSIVE TrimLeft(_)
TrimLeft(s) == IF s # <<>> /\ IsSpace(Head(s)) THEN TrimLeft(Tail(s)) ELSE s

RECURSIVE TrimRight(_)
TrimRight(s) ==
    IF s # <<>> /\ IsSpace(s[Len(s)]) THEN TrimRight(SubSeq(s, 1, Len(s) - 1)) ELSE s

Trim(s) == TrimRight(TrimLeft(s))

\* String.prototype.split with a non-empty string separator.
RECURSIVE Split(_, _)
Split(s, sep) ==
    IF Includes(s, sep)
    THEN LET k == Min(Occurrences(s, sep))
         IN  <<SubSeq(s, 1, k - 1)>> \o Split(Drop(s, k + Len(sep) - 1), sep)
    ELSE <<s>>

\* Array.prototype.filter(Boolean) on an array of strings: drops the empty ones.
RECURSIVE FilterNonEmpty(_)
FilterNonEmpty(ss) ==
    IF ss = <<>> THEN <<>>
    ELSE (IF Head(ss) = <<>> THEN <<>> ELSE <<Head(ss)>>) \o FilterNonEmpty(Tail(ss))

MapTrim(ss) == [k \in 1..Len(ss) |-> Trim(ss[k])]

\* s.replace(p, '') for a literal prefix p anchored at the start (/^p/).
StripPrefix(s, p) == IF StartsWith(s, p) THEN Drop(s, Len(p)) ELSE s

\* The first occurrence of the literal p, together with the white space after
\* it, removed: s.replace(/p\s*/, '').
ReplaceFirstThenSpaces(s, p) ==
    IF Includes(s, p)
    THEN LET k == Min(Occurrences(s, p))
         IN  SubSeq(s, 1, k - 1) \o TrimLeft(Drop(s, k + Len(p) - 1))
    ELSE s

\* Every occurrence of the character c removed: s.replace(/c/g, '').
RECURSIVE RemoveChar(_, _)
RemoveChar(s, c) ==
    IF s = <<>> THEN <<>>
    ELSE (IF Head(s) = c THEN <<>> ELSE <<Head(s)>>) \o RemoveChar(Tail(s), c)

\* The index of the first occurrence of character c in s at or after position
\* from, or 0.
FirstAt(s, c, from) ==
    LET S == {k \in from..Len(s) : s[k] = c}
    IN  IF S = {} THEN 0 ELSE Min(S)

-----------------------------------------------------------------------------
(* HTML building helpers of to-wechat-html.ts.                             *)

\* Every occurrence of the character c replaced by the text r.
RECURSIVE ReplaceChar(_, _, _)
ReplaceChar(s, c, r) ==
    IF s = <<>> THEN <<>>
    ELSE (IF Head(s) = c THEN r ELSE <<Head(s)>>) \o ReplaceChar(Tail(s), c, r)

sAmp  == <<"&", "a", "m", "p", ";">>
sLt   == <<"&", "l", "t", ";">>
sGt   == <<"&", "g", "t", ";">>
sQuot == <<"&", "q", "u", "o", "t", ";">>

escapeHtml(text) ==
    ReplaceChar(ReplaceChar(ReplaceChar(ReplaceChar(text, "&", sAmp), "<", sLt), ">", sGt),
                "\"", sQuot)

\* A match of /\[([^\]]+)\]\(([^)]+)\)/ at the start of s: its length, or 0.
LinkMatchLen(s) ==
    IF s = <<>> \/ Head(s) # "[" THEN 0
    ELSE LET rb == FirstAt(s, "]", 2)
         IN  IF rb <= 2 \/ rb + 1 > Len(s) \/ s[rb + 1] # "(" THEN 0
             ELSE LET rp == FirstAt(s, ")", rb + 2)
                  IN  IF rp <= rb + 2 THEN 0 ELSE rp

\* text.replace(/\[([^\]]+)\]\(([^)]+)\)/g, '$1')
RECURSIVE stripLinks(_)
stripLinks(text) ==
    IF text = <<>> THEN <<>>
    ELSE LET n == LinkMatchLen(text)
         IN  IF n > 0
             THEN SubSeq(text, 2, FirstAt(text, "]", 2) - 1) \o stripLinks(Drop(text, n))
             ELSE <<Head(text)>> \o stripLinks(Tail(text))

\* A match of /d([^c]+)d/ at the start of s, where the delimiter d is made of
\* the character c only: the position where the closing d starts, or 0.
DelimMatch(s, d, c) ==
    IF ~StartsWith(s, d) THEN 0
    ELSE LET e == FirstAt(s, c, Len(d) + 1)
         IN  IF e > Len(d) + 1 /\ StartsWith(Drop(s, e - 1), d) THEN e ELSE 0

\* s.replace(/d([^c]+)d/g, '$1')
RECURSIVE StripDelim(_, _, _)
StripDelim(s, d, c) ==
    IF s = <<>> THEN <<>>
    ELSE LET e == DelimMatch(s, d, c)
         IN  IF e > 0
             THEN SubSeq(s, Len(d) + 1, e - 1) \o StripDelim(Drop(s, e + Len(d) - 1), d, c)
             ELSE <<Head(s)>> \o StripDelim(Tail(s), d, c)

stripInlineMarkdown(text) ==
    StripDelim(StripDelim(StripDelim(text, <<"*", "*">>, "*"), <<"*">>, "*"), <<cBacktick>>, cBacktick)

-----------------------------------------------------------------------------
(* parseDigestMarkdown.  A nullable value is a sequence of length 0 (null) *)
(* or 1.  The parser's locals are the fields of a record st; result is the *)
(* ParsedDigest being built.  Every article and category also records the  *)
(* line that started it (srcLine, 1-based), which the parser never reads.  *)

Null == <<>>
Some(x) == <<x>>

sFence        == <<cBacktick, cBacktick, cBacktick>>
sFenceMermaid == sFence \o <<"m", "e", "r", "m", "a", "i", "d">>
sDetailsOpen  == <<"<", "d", "e", "t", "a", "i", "l", "s", ">">>
sDetailsClose == <<"<", "/", "d", "e", "t", "a", "i", "l", "s", ">">>
sH1 == <<"#", " ">>
sH2 == <<"#", "#", " ">>
sH3 == <<"#", "#", "#", " ">>
sQuote == <<">", " ">>
sRule == <<"-", "-", "-">>
sMetaSep == <<" ", cEmDash, " ">>
sBold == <<"*", "*">>

Medals == {cGold, cSilver, cBronze}

EmptyResult ==
    [title |-> <<>>, subtitle |-> <<>>, highlights |-> <<>>, topArticles |-> <<>>,
     stats |-> Null, categories |-> <<>>, footer |-> <<>>, tagCloud |-> <<>>]

InitialLocals ==
    [result |-> EmptyResult, section |-> "", currentTopArticle |-> Null,
     currentCategory |-> Null, currentCatArticle |-> Null, inMermaid |-> FALSE,
     inCodeBlock |-> FALSE, inDetails |-> FALSE, statsTableLineCount |-> 0]

\* flushTopArticle with unshift in the place of push.
flushTopArticleUnshift(st) ==
    [st EXCEPT
       !.result.topArticles =
           IF st.currentTopArticle # Null /\ st.currentTopArticle[1].titleZh # <<>>
           THEN <<st.currentTopArticle[1]>> \o @ ELSE @,
       !.currentTopArticle = Null]

flushTopArticle(st) ==
    [st EXCEPT
       !.result.topArticles =
           IF st.currentTopArticle # Null /\ st.currentTopArticle[1].titleZh # <<>>
           THEN Append(@, st.currentTopArticle[1]) ELSE @,
       !.currentTopArticle = Null]

flushCatArticle(st) ==
    [st EXCEPT
       !.currentCategory =
           IF st.currentCatArticle # Null /\ st.currentCatArticle[1].titleZh # <<>>
              /\ st.currentCategory # Null
           THEN Some([@[1] EXCEPT !.articles = Append(@, st.currentCatArticle[1])])
           ELSE @,
       !.currentCatArticle = Null]

\* flushCategory without the test that the category has an article.
flushCategoryAlways(st) ==
    LET s1 == flushCatArticle(st)
    IN  [s1 EXCEPT
           !.result.categories =
               IF s1.currentCategory # Null THEN Append(@, s1.currentCategory[1]) ELSE @,
           !.currentCategory = Null]

flushCategory(st) ==
    LET s1 == flushCatArticle(st)
    IN  [s1 EXCEPT
           !.result.categories =
               IF s1.currentCategory # Null /\ Len(s1.currentCategory[1].articles) > 0
               THEN Append(@, s1.currentCategory[1]) ELSE @,
           !.currentCategory = Null]

\* What one stage of the loop body did: the locals after it, and whether it
\* ended the iteration (continue) or fell through to the code after it.
Continue(st)    == [st |-> st, continued |-> TRUE]
FallThrough(st) == [st |-> st, continued |-> FALSE]

\* SkipBlocks where a line inside a mermaid block that is not the closing fence
\* is not skipped (the continue of line 193 inside the if of line 192).
SkipBlocksContinueInIf(st, trimmed) ==
    IF StartsWith(trimmed, sFenceMermaid)
    THEN Continue([st EXCEPT !.inMermaid = TRUE])
    ELSE IF st.inMermaid /\ trimmed = sFence
    THEN Continue([st EXCEPT !.inMermaid = FALSE])
    ELSE IF StartsWith(trimmed, sFence) /\ ~st.inCodeBlock
    THEN Continue([st EXCEPT !.inCodeBlock = TRUE])
    ELSE IF st.inCodeBlock /\ trimmed = sFence
    THEN Continue([st EXCEPT !.inCodeBlock = FALSE])
    ELSE IF StartsWith(trimmed, sDetailsOpen)
    THEN Continue([st EXCEPT !.inDetails = TRUE])
    ELSE IF st.inDetails
    THEN Continue(IF StartsWith(trimmed, sDetailsClose)
                  THEN [st EXCEPT !.inDetails = FALSE] ELSE st)
    ELSE FallThrough(st)

\* Lines 189-208: the mermaid, code and details blocks.
SkipBlocks(st, trimmed) ==
    IF StartsWith(trimmed, sFenceMermaid)
    THEN Continue([st EXCEPT !.inMermaid = TRUE])
    ELSE IF st.inMermaid
    THEN Continue(IF trimmed = sFence THEN [st EXCEPT !.inMermaid = FALSE] ELSE st)
    ELSE IF StartsWith(trimmed, sFence) /\ ~st.inCodeBlock
    THEN Continue([st EXCEPT !.inCodeBlock = TRUE])
    ELSE IF st.inCodeBlock
    THEN Continue(IF trimmed = sFence THEN [st EXCEPT !.inCodeBlock = FALSE] ELSE st)
    ELSE IF StartsWith(trimmed, sDetailsOpen)
    THEN Continue([st EXCEPT !.inDetails = TRUE])
    ELSE IF st.inDetails
    THEN Continue(IF StartsWith(trimmed, sDetailsClose)
                  THEN [st EXCEPT !.inDetails = FALSE] ELSE st)
    ELSE FallThrough(st)

IsTitleLine(trimmed) ==
    StartsWith(trimmed, sH1) /\ ~StartsWith(trimmed, sH2) /\ ~StartsWith(trimmed, sH3)

\* The subtitle taken in every section: the test without '&& !section'.
TitleAndSubtitleAnySection(st, trimmed) ==
    IF IsTitleLine(trimmed)
    THEN Continue([st EXCEPT !.result.title = StripPrefix(trimmed, sH1)])
    ELSE IF StartsWith(trimmed, sQuote \o sLaizi)
    THEN Continue([st EXCEPT !.result.subtitle = StripPrefix(trimmed, sQuote)])
    ELSE FallThrough(st)

\* Lines 210-220: the main title and the subtitle.
TitleAndSubtitle(st, trimmed) ==
    IF IsTitleLine(trimmed)
    THEN Continue([st EXCEPT !.result.title = StripPrefix(trimmed, sH1)])
    ELSE IF StartsWith(trimmed, sQuote \o sLaizi) /\ st.section = ""
    THEN Continue([st EXCEPT !.result.subtitle = StripPrefix(trimmed, sQuote)])
    ELSE FallThrough(st)

\* sectionTitle.match(/^(\S+)\s+(.+)$/): the position of the first white space
\* when the text starts with a character that is not white space and has text
\* after its first run of white space, or 0.
CategoryMatch(sectionTitle) ==
    LET S == {k \in 1..Len(sectionTitle) : IsSpace(sectionTitle[k])}
    IN  IF S = {} \/ Min(S) = 1 \/ TrimLeft(Drop(sectionTitle, Min(S))) = <<>>
        THEN 0 ELSE Min(S)

\* Lines 223-246: a level-2 header (trimmed starts with '## ').
SectionHeader(st, trimmed, idx) ==
    LET sectionTitle == StripPrefix(trimmed, sH2)
    IN  IF Includes(sectionTitle, sKandian)
        THEN [flushTopArticle(st) EXCEPT !.section = "highlights"]
        ELSE IF Includes(sectionTitle, sBidu)
        THEN [st EXCEPT !.section = "top"]
        ELSE IF Includes(sectionTitle, sGailan)
        THEN [flushTopArticle(st) EXCEPT !.section = "stats", !.statsTableLineCount = 0]
        ELSE LET s1 == [flushCategory(flushTopArticle(st)) EXCEPT !.section = "category"]
                 k  == CategoryMatch(sectionTitle)
             IN  IF k > 0
                 THEN [s1 EXCEPT !.currentCategory =
                          Some([emoji |-> SubSeq(sectionTitle, 1, k - 1),
                                label |-> TrimLeft(Drop(sectionTitle, k)),
                                articles |-> <<>>, srcLine |-> idx])]
                 ELSE s1

\* The tag cloud line captured without the return to the stats section.
TagCloudStaysOpen(st, trimmed) ==
    IF st.section = "stats" /\ StartsWith(trimmed, sH3) /\ Includes(trimmed, sBiaoqian)
    THEN Continue([st EXCEPT !.section = "tagcloud"])
    ELSE IF st.section = "tagcloud" /\ trimmed # <<>> /\ ~StartsWith(trimmed, <<"#">>)
    THEN Continue([st EXCEPT !.result.tagCloud = trimmed])
    ELSE IF st.section = "stats" /\ StartsWith(trimmed, sH3)
    THEN Continue(st)
    ELSE FallThrough(st)

\* Lines 251-263: the tag cloud sub-header, the tag cloud line, and the other
\* sub-headers of the stats section.
TagCloud(st, trimmed) ==
    IF st.section = "stats" /\ StartsWith(trimmed, sH3) /\ Includes(trimmed, sBiaoqian)
    THEN Continue([st EXCEPT !.section = "tagcloud"])
    ELSE IF st.section = "tagcloud" /\ trimmed # <<>> /\ ~StartsWith(trimmed, <<"#">>)
    THEN Continue([st EXCEPT !.result.tagCloud = trimmed, !.section = "stats"])
    ELSE IF st.section = "stats" /\ StartsWith(trimmed, sH3)
    THEN Continue(st)
    ELSE FallThrough(st)

\* trimmed.match(/^(🥇|🥈|🥉)\s+\*\*(.+)\*\*$/): the title, or <<>> for no match
\* (a match has a title of at least one character).
MedalTitle(trimmed) ==
    IF trimmed = <<>> \/ Head(trimmed) \notin Medals THEN <<>>
    ELSE LET rest == Tail(trimmed)
             body == TrimLeft(rest)
         IN  IF rest # <<>> /\ IsSpace(Head(rest)) /\ Len(body) >= 5
                /\ StartsWith(body, sBold) /\ EndsWith(body, sBold)
             THEN SubSeq(body, 3, Len(body) - 2) ELSE <<>>

IsMetaLine(trimmed) ==
    StartsWith(trimmed, <<"[">>) /\ Includes(trimmed, <<"]", "(">>)
    /\ Includes(trimmed, sMetaSep)

\* (x.summary || '') + (x.summary ? ' ' : '') + trimmed.replace(/^> /, '')
AppendSummary(summary, trimmed) ==
    summary \o (IF summary # <<>> THEN <<" ">> ELSE <<>>) \o StripPrefix(trimmed, sQuote)

IsKeywordsLine(trimmed) ==
    StartsWith(trimmed, <<cTag, cVS16>>) \/ StartsWith(trimmed, <<cTag>>)

\* trimmed.replace(/^🏷️?\s*/, '')
KeywordsText(trimmed) ==
    IF ~StartsWith(trimmed, <<cTag>>) THEN trimmed
    ELSE TrimLeft(StripPrefix(Tail(trimmed), <<cVS16>>))

\* The three replacements of lines 307-310.
ReasonText(trimmed) ==
    LET a == IF StartsWith(trimmed, <<cBulb>>) THEN TrimLeft(Tail(trimmed)) ELSE trimmed
        b == ReplaceFirstThenSpaces(a, sBold \o sWhyRead \o sBold \o <<":">>)
    IN  ReplaceFirstThenSpaces(b, sBold \o sWhyRead \o sBold \o <<cFullColon>>)

\* Lines 267-272.
CaseHighlights(st, trimmed) ==
    FallThrough(
      IF trimmed # <<>> /\ ~StartsWith(trimmed, <<"#">>)
      THEN [st EXCEPT !.result.highlights =
                @ \o (IF @ # <<>> THEN <<" ">> ELSE <<>>) \o trimmed]
      ELSE st)

\* Lines 274-320.
CaseTop(st, trimmed, idx) ==
    IF MedalTitle(trimmed) # <<>>
    THEN Continue([flushTopArticle(st) EXCEPT !.currentTopArticle =
             Some([medal |-> Head(trimmed), titleZh |-> MedalTitle(trimmed),
                   meta |-> <<>>, summary |-> <<>>, reason |-> <<>>,
                   keywords |-> <<>>, srcLine |-> idx])])
    ELSE IF st.currentTopArticle = Null
    THEN Continue(st)
    ELSE IF IsMetaLine(trimmed)
    THEN Continue([st EXCEPT !.currentTopArticle[1].meta = stripLinks(trimmed)])
    ELSE IF StartsWith(trimmed, sQuote)
    THEN Continue([st EXCEPT !.currentTopArticle[1].summary = AppendSummary(@, trimmed)])
    ELSE IF StartsWith(trimmed, <<cBulb>>)
    THEN Continue([st EXCEPT !.currentTopArticle[1].reason = ReasonText(trimmed)])
    ELSE IF IsKeywordsLine(trimmed)
    THEN Continue([st EXCEPT !.currentTopArticle[1].keywords = KeywordsText(trimmed)])
    ELSE FallThrough(st)

IsStatsTableLine(trimmed) ==
    StartsWith(trimmed, <<"|">>) /\ ~StartsWith(trimmed, <<"|", ":">>)

\* Lines 322-340.
CaseStats(st, trimmed) ==
    FallThrough(
      IF IsStatsTableLine(trimmed)
      THEN LET count == st.statsTableLineCount + 1
               cells == FilterNonEmpty(MapTrim(Split(trimmed, <<"|">>)))
           IN  [st EXCEPT
                  !.statsTableLineCount = count,
                  !.result.stats =
                      IF count = 2 /\ Len(cells) >= 4
                      THEN Some([sources |-> cells[1], articles |-> cells[2],
                                 timeRange |-> cells[3], selected |-> cells[4]])
                      ELSE @]
      ELSE st)

\* trimmed.match(/^### (\d+)\.\s+(.+)$/): the number of digits of the index, or 0
\* for no match.
ArticleMatch(trimmed) ==
    IF ~StartsWith(trimmed, sH3) THEN 0
    ELSE LET r == Drop(trimmed, 4)
             N == {k \in 1..Len(r) : ~IsDigit(r[k])}
             d == IF N = {} THEN Len(r) ELSE Min(N) - 1
         IN  IF d >= 1 /\ Len(r) >= d + 3 /\ r[d + 1] = "." /\ IsSpace(r[d + 2])
                /\ TrimLeft(Drop(r, d + 1)) # <<>>
             THEN d ELSE 0

\* Lines 342-380.
CaseCategory(st, trimmed, idx) ==
    IF st.currentCategory = Null
    THEN Continue(st)
    ELSE IF ArticleMatch(trimmed) > 0
    THEN LET d == ArticleMatch(trimmed)
         IN  Continue([flushCatArticle(st) EXCEPT !.currentCatArticle =
                 Some([index |-> SubSeq(trimmed, 5, 4 + d),
                       titleZh |-> TrimLeft(Drop(trimmed, 5 + d)),
                       meta |-> <<>>, summary |-> <<>>, keywords |-> <<>>,
                       srcLine |-> idx])])
    ELSE IF st.currentCatArticle = Null
    THEN Continue(st)
    ELSE IF IsMetaLine(trimmed)
    THEN Continue([st EXCEPT !.currentCatArticle[1].meta = stripLinks(trimmed)])
    ELSE IF StartsWith(trimmed, sQuote)
    THEN Continue([st EXCEPT !.currentCatArticle[1].summary = AppendSummary(@, trimmed)])
    ELSE IF IsKeywordsLine(trimmed)
    THEN Continue([st EXCEPT !.currentCatArticle[1].keywords = KeywordsText(trimmed)])
    ELSE FallThrough(st)

\* Lines 266-381: the switch on section.
SectionDispatch(st, trimmed, idx) ==
    CASE st.section = "highlights" -> CaseHighlights(st, trimmed)
      [] st.section = "top"        -> CaseTop(st, trimmed, idx)
      [] st.section = "stats"      -> CaseStats(st, trimmed)
      [] st.section = "category"   -> CaseCategory(st, trimmed, idx)
      [] OTHER                     -> FallThrough(st)

\* The number of trailing lines in which a footer line is looked for: line i
\* (0-based) is one of them when i > lines.length - 10.
FooterWindow == 9

\* Lines 383-386; idx is the 1-based number of the line, n the number of lines.
FooterLine(st, trimmed, idx, n) ==
    IF StartsWith(trimmed, <<"*">>) /\ EndsWith(trimmed, <<"*">>)
       /\ idx - 1 > n - (FooterWindow + 1)
    THEN [st EXCEPT !.result.footer =
             @ \o (IF @ # <<>> THEN <<"\n">> ELSE <<>>) \o stripInlineMarkdown(trimmed)]
    ELSE st

\* Lines 186-386: one iteration of the loop over the lines.
ProcessLine(st, line, idx, n) ==
    LET trimmed == Trim(line)
        a == SkipBlocks(st, trimmed)
        b == TitleAndSubtitle(a.st, trimmed)
        c == TagCloud(b.st, trimmed)
        d == SectionDispatch(c.st, trimmed, idx)
    IN  IF a.continued THEN a.st
        ELSE IF b.continued THEN b.st
        ELSE IF StartsWith(trimmed, sH2) THEN SectionHeader(b.st, trimmed, idx)
        ELSE IF trimmed = sRule THEN b.st
        ELSE IF c.continued THEN c.st
        ELSE IF d.continued THEN d.st
        ELSE FooterLine(d.st, trimmed, idx, n)

\* The end of the input without the flush of the category.
FlushRemainingTopOnly(st) == flushTopArticle(st)

\* Lines 389-393: the flushes after the loop.
FlushRemaining(st) == flushCategory(flushTopArticle(st))

-----------------------------------------------------------------------------
(* renderWechatHtml.  The HTML is a sequence of segments: the literal text *)
(* of a template of the source ("template", named by what it opens or      *)
(* closes), a value inserted through escapeHtml ("escaped"), or a value    *)
(* inserted as it is ("raw").                                              *)

Tpl(name) == <<[kind |-> "template", text |-> <<name>>]>>
Esc(text) == <<[kind |-> "escaped", text |-> escapeHtml(text)]>>
Raw(text) == <<[kind |-> "raw", text |-> text]>>

RECURSIVE Flatten(_)
Flatten(ss) == IF ss = <<>> THEN <<>> ELSE Head(ss) \o Flatten(Tail(ss))

\* CATEGORY_COLORS, in the order of its keys (lines 41-48), and COLORS.tagOther.
CategoryColors ==
    << [key |-> <<"A", "I", " ", "/", " ", "M", "L">>, color |-> "#1a73e8"],
       [key |-> <<"<U+5B89>", "<U+5168>">>, color |-> "#e53935"],                \* 安全
       [key |-> <<"<U+5DE5>", "<U+7A0B>">>, color |-> "#43a047"],                \* 工程
       [key |-> <<"<U+5DE5>", "<U+5177>", " ", "/", " ", "<U+5F00>", "<U+6E90>">>,
        color |-> "#fb8c00"],                                                    \* 工具 / 开源
       [key |-> <<"<U+89C2>", "<U+70B9>", " ", "/", " ", "<U+6742>", "<U+8C08>">>,
        color |-> "#8e24aa"],                                                    \* 观点 / 杂谈
       [key |-> <<"<U+5176>", "<U+4ED6>">>, color |-> "#757575"] >>              \* 其他

getCategoryColor(label) ==
    LET S == {k \in 1..Len(CategoryColors) : Includes(label, CategoryColors[k].key)}
    IN  IF S = {} THEN "#757575" ELSE CategoryColors[Min(S)].color

\* part.match(/[🤖🔒⚙️🛠💡📝]/): the pattern has no u flag, so the class holds
\* the UTF-16 code units D83E DD16 D83D DD12 2699 FE0F DEE0 DCA1 DCDD, and a
\* character matches when one of its code units is among them.  These are the
\* characters of this module that do.
BadgeChars ==
    {cRobot, "<U+1F512>", "<U+2699>", cVS16, "<U+1F6E0>", cBulb, "<U+1F4DD>",
     cGold, cSilver, cBronze, cNews}

IsBadgePart(part) == \E k \in 1..Len(part) : part[k] \in BadgeChars

\* s.split(/[,，]\s*/)
RECURSIVE SplitKeywords(_)
SplitKeywords(s) ==
    LET S == {k \in 1..Len(s) : s[k] \in {",", cFullComma}}
    IN  IF S = {} THEN <<s>>
        ELSE <<SubSeq(s, 1, Min(S) - 1)>> \o SplitKeywords(TrimLeft(Drop(s, Min(S))))

KeywordTags(keywords) == FilterNonEmpty(MapTrim(SplitKeywords(keywords)))

\* Lines 480-485 and 540-545: the keyword chips.
RenderKeywords(keywords, chip) ==
    IF keywords = <<>> THEN <<>>
    ELSE LET tags == KeywordTags(keywords)
         IN  Tpl("keywords.open")
             \o Flatten([k \in 1..Len(tags) |-> Tpl(chip) \o Esc(tags[k]) \o Tpl("/span")])
             \o Tpl("keywords.close")

\* Lines 452-466: the meta line of a top article.
RECURSIVE RenderMetaParts(_, _)
RenderMetaParts(parts, metaHtml) ==
    IF parts = <<>> THEN metaHtml
    ELSE LET part == Head(parts)
         IN  RenderMetaParts(Tail(parts),
               IF IsBadgePart(part)
               THEN metaHtml \o Tpl("badge " \o getCategoryColor(part)) \o Esc(part)
                    \o Tpl("/span")
               ELSE metaHtml \o (IF metaHtml # <<>> THEN Tpl(" . ") ELSE <<>>)
                    \o Tpl("span") \o Esc(part) \o Tpl("/span"))

RenderTopMeta(meta) ==
    IF meta = <<>> THEN <<>>
    ELSE LET metaParts == Split(meta, sMetaSep)
             metaRight == IF Len(metaParts) > 1 THEN metaParts[2] ELSE <<>>
             catParts  == MapTrim(Split(metaRight, <<" ", cMidDot, " ">>))
         IN  Tpl("top.meta.open") \o RenderMetaParts(catParts, <<>>) \o Tpl("/p")

\* Lines 443-489: the card of one top article.
RenderTopArticle(art) ==
    Tpl("top.card.open "
        \o (IF art.medal = cGold THEN "#FFD700"
            ELSE IF art.medal = cSilver THEN "#C0C0C0" ELSE "#CD7F32"))
    \o Tpl("top.title.open") \o Raw(<<art.medal>>) \o Tpl(" ") \o Esc(art.titleZh)
    \o Tpl("/p")
    \o RenderTopMeta(art.meta)
    \o (IF art.summary # <<>>
        THEN Tpl("top.summary.open") \o Esc(art.summary) \o Tpl("/p") ELSE <<>>)
    \o (IF art.reason # <<>>
        THEN Tpl("top.reason.open") \o Esc(art.reason) \o Tpl("/section") ELSE <<>>)
    \o RenderKeywords(art.keywords, "top.chip")
    \o Tpl("/section")

\* Lines 493-508: the four cells of the stats table; a label is a literal of the
\* source passed through escapeHtml too.
RenderStats(stats) ==
    IF stats = Null THEN <<>>
    ELSE LET statsItems == << stats[1].sources, stats[1].articles, stats[1].timeRange,
                              stripInlineMarkdown(stats[1].selected) >>
         IN  Tpl("stats.h2") \o Tpl("stats.table.open")
             \o Flatten([k \in 1..4 |->
                    Tpl("stats.value.open") \o Esc(statsItems[k])
                    \o Tpl("stats.label " \o ToString(k)) \o Tpl("/td")])
             \o Tpl("stats.table.close")

\* Lines 521-549: one article of a category.
RenderCatArticle(art) ==
    Tpl("cat.article.open")
    \o Tpl("cat.index.open") \o Esc(art.index) \o Tpl(".") \o Esc(art.titleZh) \o Tpl("/p")
    \o (IF art.meta # <<>>
        THEN Tpl("cat.meta.open") \o Esc(stripInlineMarkdown(art.meta)) \o Tpl("/p")
        ELSE <<>>)
    \o (IF art.summary # <<>>
        THEN Tpl("cat.summary.open") \o Esc(art.summary) \o Tpl("/p") ELSE <<>>)
    \o RenderKeywords(art.keywords, "cat.chip")
    \o Tpl("/section")

\* Lines 516-550: a category: its header (line 519), then its articles.
RenderCategory(cat) ==
    Tpl("cat.h2.open " \o getCategoryColor(cat.label))
    \o Raw(cat.emoji) \o Tpl(" ") \o Esc(cat.label) \o Tpl("/span/h2")
    \o Flatten([k \in 1..Len(cat.articles) |-> RenderCatArticle(cat.articles[k])])

RECURSIVE DropIncluding(_, _)
DropIncluding(ss, sub) ==
    IF ss = <<>> THEN <<>>
    ELSE (IF Includes(Head(ss), sub) THEN <<>> ELSE <<Head(ss)>>)
         \o DropIncluding(Tail(ss), sub)

\* Lines 561-570: the footer lines.
RenderFooter(footer) ==
    IF footer = <<>> THEN <<>>
    ELSE LET footerLines == DropIncluding(FilterNonEmpty(Split(footer, <<"\n">>)), sDongdian)
         IN  IF Len(footerLines) > 0
             THEN Tpl("footer.open")
                  \o Flatten([k \in 1..Len(footerLines) |->
                         Tpl("footer.p") \o Esc(footerLines[k]) \o Tpl("/p")])
                  \o Tpl("/section")
             ELSE <<>>

\* Lines 400-573.
renderWechatHtml(parsed) ==
    LET title == stripInlineMarkdown(parsed.title)
        titleText == IF StartsWith(title, <<cNews>>) THEN TrimLeft(Tail(title)) ELSE title
    IN  Tpl("html.head.title") \o Esc(title) \o Tpl("/title.body.section")
        \o Tpl("h1") \o Esc(titleText) \o Tpl("/h1") \o Tpl("tagline")
        \o (IF parsed.highlights # <<>>
            THEN Tpl("highlights.open") \o Esc(parsed.highlights) \o Tpl("highlights.close")
            ELSE <<>>)
        \o (IF Len(parsed.topArticles) > 0
            THEN Tpl("top.h2")
                 \o Flatten([k \in 1..Len(parsed.topArticles) |->
                                RenderTopArticle(parsed.topArticles[k])])
            ELSE <<>>)
        \o RenderStats(parsed.stats)
        \o Tpl("divider")
        \o Flatten([k \in 1..Len(parsed.categories) |-> RenderCategory(parsed.categories[k])])
        \o Tpl("divider") \o Tpl("follow")
        \o RenderFooter(parsed.footer)
        \o Tpl("/section./body./html")

\* parseDigestMarkdown as a function of the lines of md (md.split('\n')).
RECURSIVE ParseFrom(_, _, _)
ParseFrom(st, ls, idx) ==
    IF idx > Len(ls) THEN FlushRemaining(st).result
    ELSE ParseFrom(ProcessLine(st, ls[idx], idx, Len(ls)), ls, idx + 1)

parseDigestMarkdown(ls) == ParseFrom(InitialLocals, ls, 1)

-----------------------------------------------------------------------------
(* gen-cover.ts: parseCoverData and renderCoverHtml.                       *)

IsDateAt(line, k) ==
    /\ k + 9 <= Len(line)
    /\ \A d \in {0, 1, 2, 3, 5, 6, 8, 9} : IsDigit(line[k + d])
    /\ line[k + 4] = "-" /\ line[k + 7] = "-"

\* line.match(/(\d{4}-\d{2}-\d{2})/): the leftmost match, or <<>>.
DateMatch(line) ==
    LET S == {k \in 1..Len(line) : IsDateAt(line, k)}
    IN  IF S = {} THEN <<>> ELSE SubSeq(line, Min(S), Min(S) + 9)

\* Lines 28-33: the date of the first line that has one.
RECURSIVE CoverDate(_)
CoverDate(ls) ==
    IF ls = <<>> THEN <<>>
    ELSE IF DateMatch(Head(ls)) # <<>> THEN DateMatch(Head(ls))
    ELSE CoverDate(Tail(ls))

\* The most titles top3 holds (line 38).
CoverTopMax == 3

\* Lines 36-41: the titles of the first medal lines.
RECURSIVE CoverTop(_, _)
CoverTop(ls, top3) ==
    IF ls = <<>> THEN top3
    ELSE CoverTop(Tail(ls),
                  IF MedalTitle(Trim(Head(ls))) # <<>> /\ Len(top3) < CoverTopMax
                  THEN Append(top3, MedalTitle(Trim(Head(ls)))) ELSE top3)

\* What \*?\*? takes at the start of s, the lazy (.+?) keeping a character: the
\* largest n in 0..2 below Len(s) such that s starts with n asterisks.
LeadingStars(s) ==
    IF 2 < Len(s) /\ s[1] = "*" /\ s[2] = "*" THEN 2
    ELSE IF 1 < Len(s) /\ s[1] = "*" THEN 1 ELSE 0

\* What \*?\*? takes at the end of s, in the same way.
TrailingStars(s) ==
    IF 2 < Len(s) /\ s[Len(s)] = "*" /\ s[Len(s) - 1] = "*" THEN 2
    ELSE IF 1 < Len(s) /\ s[Len(s)] = "*" THEN 1 ELSE 0

\* part.match(/\*?\*?(.+?)\*?\*?\((\d+)\)$/): the position of the '(' of the
\* count that ends the part when there is text before it, or 0.
KeywordCountAt(part) ==
    LET S == {q \in 2..(Len(part) - 2) :
                 /\ part[q] = "(" /\ part[Len(part)] = ")"
                 /\ \A k \in (q + 1)..(Len(part) - 1) : IsDigit(part[k])}
    IN  IF S = {} THEN 0 ELSE Min(S)

\* m[1] of that match: the text before the count without the (at most two)
\* asterisks the pattern takes on each side of it.
KeywordGroup(part) ==
    LET P     == SubSeq(part, 1, KeywordCountAt(part) - 1)
        B     == Drop(P, LeadingStars(P))
    IN  SubSeq(B, 1, Len(B) - TrailingStars(B))

\* The most tokens of the tag cloud line that are looked at (line 47).
CoverKeywordMax == 5

\* Lines 48-51, over at most the first five parts.
RECURSIVE CoverKeywordsOf(_)
CoverKeywordsOf(parts) ==
    IF parts = <<>> THEN <<>>
    ELSE (IF KeywordCountAt(Head(parts)) > 0
          THEN <<RemoveChar(KeywordGroup(Head(parts)), "*")>> ELSE <<>>)
         \o CoverKeywordsOf(Tail(parts))

sDotSep == <<" ", cMidDot, " ">>

IsTagCloudLine(trimmed) == Includes(trimmed, <<"(">>) /\ Includes(trimmed, sDotSep)

\* Lines 44-54: the keywords of the first line that holds '(' and ' · '.
RECURSIVE CoverKeywords(_)
CoverKeywords(ls) ==
    IF ls = <<>> THEN <<>>
    ELSE LET trimmed == Trim(Head(ls))
             parts   == Split(trimmed, sDotSep)
         IN  IF IsTagCloudLine(trimmed)
             THEN CoverKeywordsOf(SubSeq(parts, 1, IF Len(parts) < CoverKeywordMax
                                                    THEN Len(parts) ELSE CoverKeywordMax))
             ELSE CoverKeywords(Tail(ls))

parseCoverData(ls) ==
    [date |-> CoverDate(ls), top3 |-> CoverTop(ls, <<>>), topKeywords |-> CoverKeywords(ls)]

\* escapeHtml of gen-cover.ts (lines 59-61): it leaves '"' as it is.
coverEscapeHtml(text) ==
    ReplaceChar(ReplaceChar(ReplaceChar(text, "&", sAmp), "<", sLt), ">", sGt)

CoverEsc(text) == <<[kind |-> "escaped", text |-> coverEscapeHtml(text)]>>

\* The longest title shown whole (line 80).
CoverTitleMax == 30

cEllipsis == "<U+2026>"   \* …

truncate(text, maxLen) ==
    IF Len(text) > maxLen THEN SubSeq(text, 1, maxLen) \o <<cEllipsis>> ELSE text

\* String(parseInt(s)) for a string of two digits.
ParseInt2(s) == IF Head(s) = "0" THEN Tail(s) ELSE s

\* Lines 71-74; 年 月 日 are U+5E74 U+6708 U+65E5.
DisplayDate(date) ==
    LET dateParts == Split(date, <<"-">>)
    IN  IF Len(dateParts) = 3
        THEN dateParts[1] \o <<"<U+5E74>">> \o ParseInt2(dateParts[2]) \o <<"<U+6708>">>
             \o ParseInt2(dateParts[3]) \o <<"<U+65E5>">>
        ELSE date

\* Lines 67-135.
renderCoverHtml(data) ==
    LET shown == IF Len(data.top3) < 3 THEN Len(data.top3) ELSE 3
        kws   == SubSeq(data.topKeywords, 1,
                        IF Len(data.topKeywords) < 5 THEN Len(data.topKeywords) ELSE 5)
    IN  Tpl("cover.head") \o CoverEsc(DisplayDate(data.date)) \o Tpl("cover.top.open")
        \o Flatten([k \in 1..shown |->
               Tpl("cover.top " \o ToString(k))
               \o CoverEsc(truncate(data.top3[k], CoverTitleMax)) \o Tpl("/div")])
        \o Tpl("cover.top.close")
        \o (IF kws # <<>>
            THEN Tpl("cover.keywords.open")
                 \o Flatten([k \in 1..Len(kws) |->
                        Tpl("cover.chip") \o CoverEsc(kws[k]) \o Tpl("/span")])
                 \o Tpl("/div")
            ELSE <<>>)
        \o Tpl("cover.badge./html")

-----------------------------------------------------------------------------
(* The state: one run of parseDigestMarkdown over the lines of its input,  *)
(* followed by renderWechatHtml on what it returns; one call of            *)
(* parseCoverData; and one run of a command-line entry point.              *)

VARIABLES
    lines,                \* md.split('\n')
    i,                    \* the loop index (0-based): the lines before it are done
    pc,                   \* "loop", "returned" (the parse returned), "rendered"
    result, section, currentTopArticle, currentCategory, currentCatArticle,
    inMermaid, inCodeBlock, inDetails, statsTableLineCount,
    html,                 \* what renderWechatHtml returned
    cover,                \* what parseCoverData returned, or null
    program,              \* the script that runs
    argv,                 \* process.argv.slice(2)
    step,                 \* where the script is
    inputPath, outputPath,
    disk,                 \* the lines of the input file, when it can be read
    md, data, out,        \* the locals of the conversion, null until set
    reads,                \* the paths read so far
    written,              \* the files written so far: path and content
    console,              \* the messages printed so far
    exitCode,             \* the exit status, -1 while the process runs
    fsError,              \* the error the file system or the browser raised
    thrown,               \* the error the conversion rejected with
    failedAt              \* the step that failed

locals == <<result, section, currentTopArticle, currentCategory, currentCatArticle,
            inMermaid, inCodeBlock, inDetails, statsTableLineCount>>

parserVars == <<lines, i, pc, locals, html>>

paths == <<inputPath, outputPath>>

cliVars == <<program, argv, step, paths, disk, md, data, out, reads, written, console,
             exitCode, fsError, thrown, failedAt>>

vars == <<parserVars, cover, cliVars>>

Locals ==
    [result |-> result, section |-> section, currentTopArticle |-> currentTopArticle,
     currentCategory |-> currentCategory, currentCatArticle |-> currentCatArticle,
     inMermaid |-> inMermaid, inCodeBlock |-> inCodeBlock, inDetails |-> inDetails,
     statsTableLineCount |-> statsTableLineCount]

SetLocals(st) ==
    /\ result' = st.result
    /\ section' = st.section
    /\ currentTopArticle' = st.currentTopArticle
    /\ currentCategory' = st.currentCategory
    /\ currentCatArticle' = st.currentCatArticle
    /\ inMermaid' = st.inMermaid
    /\ inCodeBlock' = st.inCodeBlock
    /\ inDetails' = st.inDetails
    /\ statsTableLineCount' = st.statsTableLineCount

-----------------------------------------------------------------------------
(* The inputs.  Each specification draws the lines of its input from a     *)
(* vocabulary of lines; an input has at most MaxLines lines.               *)

MaxLines == 4

RECURSIVE SeqsUpTo(_, _)
SeqsUpTo(V, n) ==
    IF n = 0 THEN {<<>>}
    ELSE LET shorter == SeqsUpTo(V, n - 1)
         IN  shorter \cup {Append(ls, v) : ls \in {x \in shorter : Len(x) = n - 1}, v \in V}

lnHighlights == sH2 \o <<cNews, " ">> \o sKandian          \* ## 📰 今日看点
lnTop        == sH2 \o sBidu                               \* ## 今日必读
lnStats      == sH2 \o sGailan                             \* ## 数据概览
lnCatAI      == sH2 \o <<cRobot, " ", "A", "I">>           \* ## 🤖 AI
lnCatBare    == sH2 \o <<"X">>                             \* ## X
lnTitle      == sH1 \o <<"T">>                             \* # T
lnGold       == <<cGold, " ", "*", "*", "a", "*", "*">>    \* 🥇 **a**
lnBronze     == <<cBronze, " ", "*", "*", "b", "*", "*">>  \* 🥉 **b**
lnArt1       == sH3 \o <<"1", ".", " ", "p">>              \* ### 1. p
lnArtEmpty   == sH3 \o <<"3", ".", " ">>                   \* ### 3. (no title)
lnSummary    == sQuote \o <<"s">>                          \* > s
lnFooter     == <<"*", "f", "*">>                          \* *f*
lnFence      == sFence                                     \* ```
lnFenceText  == <<" ">> \o sFence \o <<"t">>               \*  ```t
lnMermaid    == sFenceMermaid                              \* ```mermaid
lnTableHead  == <<"|", "a", "|", "b", "|", "c", "|", "d", "|">>      \* |a|b|c|d|
lnTableAlign == <<"|", "-", "|", "-", "|", "-", "|", "-", "|">>      \* |-|-|-|-|
lnTableData  == <<"|", "1", "|", "2", "|", "3", "|", "4", "|">>      \* |1|2|3|4|
lnTableColon == <<"|", ":", "-", "|", ":", "-", "|", ":", "-", "|", ":", "-", "|">>  \* |:-|:-|:-|:-|
lnTagCloud   == sH3 \o sBiaoqian                           \* ### 话题标签
lnChart      == sH3 \o <<"c">>                             \* ### c
lnTagLine    == <<"x", "(", "2", ")">>                     \* x(2)
lnDetailsOpen == sDetailsOpen                              \* <details>

\* The sections, the top articles, the categories and their articles.
VocabRecords ==
    {lnTop, lnHighlights, lnCatAI, lnCatBare, lnGold, lnBronze, lnArt1, lnArtEmpty,
     lnSummary}

\* The skipped blocks, and lines that the parser reads when they are outside one.
VocabBlocks ==
    {lnMermaid, lnFence, lnFenceText, lnDetailsOpen, lnTitle, lnTop, lnGold, lnFooter}

\* The stats section.
VocabStats ==
    {lnStats, lnTableHead, lnTableAlign, lnTableData, lnTableColon, lnTagCloud,
     lnChart, lnTagLine}

lnTitleScript == sH1 \o <<"<", "s", "c", "r", "i", "p", "t", ">">>     \* # <script>
lnCatTag      == sH2 \o <<"<", "b", ">", " ", "L">>                  \* ## <b> L
lnCatAmp      == sH2 \o <<"X", " ", "a", "&", "b">>                  \* ## X a&b
lnGoldQuote   == <<cGold, " ", "*", "*", "\"", "q", "\"", "*", "*">>  \* 🥇 **"q"**
lnArtLt       == sH3 \o <<"1", ".", " ", "p", "<", "q">>             \* ### 1. p<q
lnSummaryAmp  == sQuote \o <<"a", "&", "g", "t", ";">>               \* > a&gt;

\* Text with the characters that escapeHtml replaces, in each kind of field.
VocabRender ==
    {lnTitleScript, lnCatTag, lnCatAmp, lnGoldQuote, lnArtLt, lnSummaryAmp, lnTop,
     lnHighlights}

lnSilver     == <<cSilver, " ", "*", "*", "c", "*", "*">>              \* 🥈 **c**
lnCoverTitle == sH1 \o <<"2", "0", "2", "6", "-", "0", "2", "-", "1", "5">>   \* # 2026-02-15
\* [T](u) — s · 2h
lnMeta       == <<"[", "T", "]", "(", "u", ")">> \o sMetaSep \o <<"s">> \o sDotSep
                \o <<"2", "h">>
\* **AI**(5) · L(3)
lnTags2      == <<"*", "*", "A", "I", "*", "*", "(", "5", ")">> \o sDotSep
                \o <<"L", "(", "3", ")">>
\* a(1) · b(1) · c(1) · d(1) · e(1) · f(1)
lnTags6      == <<"a", "(", "1", ")">> \o sDotSep \o <<"b", "(", "1", ")">> \o sDotSep
                \o <<"c", "(", "1", ")">> \o sDotSep \o <<"d", "(", "1", ")">> \o sDotSep
                \o <<"e", "(", "1", ")">> \o sDotSep \o <<"f", "(", "1", ")">>
\* x(2) · z · ***(1)
lnTagsOdd    == lnTagLine \o sDotSep \o <<"z">> \o sDotSep \o <<"*", "*", "*", "(", "1", ")">>

\* What the cover is made of: a dated title, medal lines, tag cloud lines, and the
\* meta line of an article.
VocabCover ==
    {lnCoverTitle, lnGold, lnSilver, lnMeta, lnTags2, lnTags6, lnTagsOdd, lnTagLine}

lnTitleU     == sH1 \o <<"U">>                             \* # U
lnSubtitle   == sQuote \o sLaizi \o <<"a">>                \* > 来自a
lnSubtitleB  == sQuote \o sLaizi \o <<"b">>                \* > 来自b

\* The head of a digest: titles, subtitle lines, and the section headers and
\* records that a subtitle line can follow.
VocabHead ==
    {lnTitle, lnTitleU, lnSubtitle, lnSubtitleB, lnTop, lnHighlights, lnGold, lnCatAI,
     lnArt1, lnFence}

lnRule       == sRule                                      \* ---
lnTagSpaced  == <<" ", "y", "(", "1", ")", " ">>            \*  y(1)  (in spaces)

\* The tag cloud: the stats header, the sub-headers, lines that can follow the
\* tag cloud sub-header, and a header that leaves the section.
VocabTagCloud ==
    {lnStats, lnTagCloud, lnChart, lnTagLine, lnTagSpaced, lnRule, lnFence, lnTop,
     lnSubtitle}

\* No script runs.
CliIdle ==
    /\ program = "" /\ argv = <<>> /\ step = "idle"
    /\ inputPath = <<>> /\ outputPath = <<>> /\ disk = <<>>
    /\ md = Null /\ data = Null /\ out = Null
    /\ reads = <<>> /\ written = <<>> /\ console = <<>>
    /\ exitCode = -1 /\ fsError = Null /\ thrown = Null /\ failedAt = ""

\* The locals of parseDigestMarkdown as lines 142-161 set them.
ParserStart ==
    /\ i = 0
    /\ result = InitialLocals.result
    /\ section = InitialLocals.section
    /\ currentTopArticle = InitialLocals.currentTopArticle
    /\ currentCategory = InitialLocals.currentCategory
    /\ currentCatArticle = InitialLocals.currentCatArticle
    /\ inMermaid = InitialLocals.inMermaid
    /\ inCodeBlock = InitialLocals.inCodeBlock
    /\ inDetails = InitialLocals.inDetails
    /\ statsTableLineCount = InitialLocals.statsTableLineCount
    /\ html = <<>>

InitWith(V) ==
    /\ lines \in SeqsUpTo(V, MaxLines)
    /\ pc = "loop"
    /\ ParserStart
    /\ cover = Null
    /\ CliIdle

-----------------------------------------------------------------------------
(* The actions.                                                            *)

\* One iteration of the loop of lines 185-387.
ParseLine ==
    /\ pc = "loop"
    /\ i < Len(lines)
    /\ SetLocals(ProcessLine(Locals, lines[i + 1], i + 1, Len(lines)))
    /\ i' = i + 1
    /\ UNCHANGED <<lines, pc, html, cover, cliVars>>

\* The end of the loop: the flushes of lines 389-391, and the return.
ParseReturn ==
    /\ pc = "loop"
    /\ i = Len(lines)
    /\ SetLocals(FlushRemaining(Locals))
    /\ pc' = "returned"
    /\ UNCHANGED <<lines, i, html, cover, cliVars>>

\* renderWechatHtml on the parsed digest (line 582).
Render ==
    /\ pc = "returned"
    /\ html' = renderWechatHtml(result)
    /\ pc' = "rendered"
    /\ UNCHANGED <<lines, i, locals, cover, cliVars>>

Next == ParseLine \/ ParseReturn \/ Render

Init == InitWith(VocabRecords)
Spec == Init /\ [][Next]_vars

InitBlocks == InitWith(VocabBlocks)
SpecBlocks == InitBlocks /\ [][Next]_vars

InitStats == InitWith(VocabStats)
SpecStats == InitStats /\ [][Next]_vars

InitHead == InitWith(VocabHead)
SpecHead == InitHead /\ [][Next]_vars

InitTagCloud == InitWith(VocabTagCloud)
SpecTagCloud == InitTagCloud /\ [][Next]_vars

InitRender == InitWith(VocabRender)
SpecRender == InitRender /\ [][Next]_vars

\* parseCoverData on the lines of md (gen-cover.ts, line 143).
ParseCover ==
    /\ pc = "cover"
    /\ cover = Null
    /\ cover' = Some(parseCoverData(lines))
    /\ UNCHANGED <<parserVars, cliVars>>

NextCover == ParseCover

InitCover ==
    /\ lines \in SeqsUpTo(VocabCover, MaxLines)
    /\ pc = "cover"
    /\ ParserStart
    /\ cover = Null
    /\ CliIdle

SpecCover == InitCover /\ [][NextCover]_vars

-----------------------------------------------------------------------------
(* The command-line entry points and the conversions they await.           *)

Programs == {"to-wechat-html", "gen-cover", "screenshot-cover"}

\* The two scripts that convert a Markdown file.
Conversions == {"to-wechat-html", "gen-cover"}

sExtMd        == <<".", "m", "d">>
sExtHtml      == <<".", "h", "t", "m", "l">>
sExtCoverHtml == <<"-", "c", "o", "v", "e", "r">> \o sExtHtml
sExtPng       == <<".", "p", "n", "g">>

\* path.replace(/suffix$/, replacement): a path that does not end with the
\* suffix is returned as it is.
ReplaceSuffix(path, suffix, replacement) ==
    IF EndsWith(path, suffix)
    THEN SubSeq(path, 1, Len(path) - Len(suffix)) \o replacement
    ELSE path

\* The output path of an entry point that is given none.
DefaultOutput(prog, input) ==
    IF prog = "to-wechat-html" THEN ReplaceSuffix(input, sExtMd, sExtHtml)
    ELSE IF prog = "gen-cover" THEN ReplaceSuffix(input, sExtMd, sExtCoverHtml)
    ELSE ReplaceSuffix(input, sExtHtml, sExtPng)

\* console.log of the usage line; process.exit(1).
Usage(prog) == [kind |-> "usage", program |-> prog, path |-> <<>>]

Success(prog, path) == [kind |-> "success", program |-> prog, path |-> path]

HasSuccess == \E k \in 1..Len(console) : console[k].kind = "success"

\* The entry point: the arguments, the usage message, the two paths.
CliStart ==
    /\ step = "start"
    /\ IF Len(argv) < 1
       THEN /\ console' = Append(console, Usage(program))
            /\ exitCode' = 1
            /\ step' = "exited"
            /\ UNCHANGED paths
       ELSE /\ inputPath' = argv[1]
            /\ outputPath' = IF Len(argv) > 1 /\ argv[2] # <<>>
                              THEN argv[2] ELSE DefaultOutput(program, argv[1])
            /\ step' = IF program = "screenshot-cover" THEN "launch" ELSE "read"
            /\ UNCHANGED <<console, exitCode>>
    /\ UNCHANGED <<parserVars, cover, program, argv, disk, md, data, out, reads, written,
                   fsError, thrown, failedAt>>

\* An awaited call rejects with e: nothing catches it, the function rejects
\* with it and the process ends.
Reject(at, e) ==
    /\ fsError' = Some(e)
    /\ thrown' = Some(e)
    /\ failedAt' = at
    /\ step' = "failed"
    /\ exitCode' = 1

ReadErrors == {"ENOENT", "EACCES"}

WriteErrors == {"EACCES", "ENOSPC"}

BrowserErrors == {"launch", "navigation", "capture"}

\* const md = await readFile(mdPath, 'utf-8')
ReadInput ==
    /\ step = "read"
    /\ reads' = Append(reads, inputPath)
    /\ \/ /\ md' = Some(disk)
          /\ step' = "parse"
          /\ UNCHANGED <<exitCode, fsError, thrown, failedAt>>
       \/ /\ \E e \in ReadErrors : Reject("read", e)
          /\ UNCHANGED md
    /\ UNCHANGED <<parserVars, cover, program, argv, paths, disk, data, out, written,
                   console>>

\* parseDigestMarkdown(md) or parseCoverData(md)
ParseInput ==
    /\ step = "parse"
    /\ data' = Some(IF program = "to-wechat-html" THEN parseDigestMarkdown(md[1])
                                                  ELSE parseCoverData(md[1]))
    /\ step' = "render"
    /\ UNCHANGED <<parserVars, cover, program, argv, paths, disk, md, out, reads, written,
                   console, exitCode, fsError, thrown, failedAt>>

\* renderWechatHtml(parsed) or renderCoverHtml(data)
RenderOutput ==
    /\ step = "render"
    /\ out' = Some(IF program = "to-wechat-html" THEN renderWechatHtml(data[1])
                                                 ELSE renderCoverHtml(data[1]))
    /\ step' = "write"
    /\ UNCHANGED <<parserVars, cover, program, argv, paths, disk, md, data, reads,
                   written, console, exitCode, fsError, thrown, failedAt>>

\* The write whose failure nobody sees: writeFile without await.
WriteOutputNotAwaited ==
    /\ step = "write"
    /\ step' = "log"
    /\ \/ written' = Append(written, [path |-> outputPath, content |-> out[1]])
       \/ UNCHANGED written
    /\ UNCHANGED <<parserVars, cover, program, argv, paths, disk, md, data, out, reads,
                   console, exitCode, fsError, thrown, failedAt>>

\* await writeFile(htmlPath, html, 'utf-8')
WriteOutput ==
    /\ step = "write"
    /\ \/ /\ written' = Append(written, [path |-> outputPath, content |-> out[1]])
          /\ step' = "log"
          /\ UNCHANGED <<exitCode, fsError, thrown, failedAt>>
       \/ /\ \E e \in WriteErrors : Reject("write", e)
          /\ UNCHANGED written
    /\ UNCHANGED <<parserVars, cover, program, argv, paths, disk, md, data, out, reads,
                   console>>

\* console.log of the success line; the entry point ends.
LogSuccess ==
    /\ step = "log"
    /\ console' = Append(console, Success(program, outputPath))
    /\ step' = "done"
    /\ exitCode' = 0
    /\ UNCHANGED <<parserVars, cover, program, argv, paths, disk, md, data, out, reads,
                   written, fsError, thrown, failedAt>>

\* await puppeteer.default.launch(...), browser.newPage(), page.setViewport(...)
BrowserLaunch ==
    /\ step = "launch"
    /\ \/ /\ step' = "goto"
          /\ UNCHANGED <<exitCode, fsError, thrown, failedAt>>
       \/ Reject("launch", "launch")
    /\ UNCHANGED <<parserVars, cover, program, argv, paths, disk, md, data, out, reads,
                   written, console>>

\* await page.goto(fileUrl, { waitUntil: 'networkidle0' })
PageGoto ==
    /\ step = "goto"
    /\ reads' = Append(reads, inputPath)
    /\ \/ /\ step' = "screenshot"
          /\ UNCHANGED <<exitCode, fsError, thrown, failedAt>>
       \/ Reject("goto", "navigation")
    /\ UNCHANGED <<parserVars, cover, program, argv, paths, disk, md, data, out, written,
                   console>>

\* await page.screenshot({ path: pngPath, ... })
PageScreenshot ==
    /\ step = "screenshot"
    /\ \/ /\ written' = Append(written, [path |-> outputPath, content |-> <<"png">>])
          /\ step' = "close"
          /\ UNCHANGED <<exitCode, fsError, thrown, failedAt>>
       \/ /\ Reject("screenshot", "capture")
          /\ UNCHANGED written
    /\ UNCHANGED <<parserVars, cover, program, argv, paths, disk, md, data, out, reads,
                   console>>

\* await browser.close()
BrowserClose ==
    /\ step = "close"
    /\ step' = "log"
    /\ UNCHANGED <<parserVars, cover, program, argv, paths, disk, md, data, out, reads,
                   written, console, exitCode, fsError, thrown, failedAt>>

NextCli ==
    \/ CliStart
    \/ ReadInput \/ ParseInput \/ RenderOutput \/ WriteOutput \/ LogSuccess
    \/ BrowserLaunch \/ PageGoto \/ PageScreenshot \/ BrowserClose

pMd   == <<"a">> \o sExtMd                 \* a.md
pTxt  == <<"a", ".", "t", "x", "t">>       \* a.txt
pHtml == <<"c">> \o sExtHtml               \* c.html
pBare == <<"n">>                           \* n
pOut  == <<"o">>                           \* o

InputPaths == {pMd, pTxt, pHtml, pBare}

\* No argument, an input path, or an input path and an output path (which the
\* shell may pass as the empty string).
Argvs ==
    {<<>>} \cup {<<p>> : p \in InputPaths}
           \cup {<<p, q>> : p \in InputPaths, q \in {pOut, <<>>}}

\* What the input file holds, as md.split(newline) sees it.
Docs ==
    { <<lnTitle, lnTop, lnGold, lnSummary>>,
      <<lnCoverTitle, lnGold, lnMeta, lnTags2>>,
      << <<>> >> }

InitCli ==
    /\ lines = <<>>
    /\ pc = "idle"
    /\ ParserStart
    /\ cover = Null
    /\ program \in Programs
    /\ argv \in Argvs
    /\ disk \in Docs
    /\ step = "start"
    /\ inputPath = <<>> /\ outputPath = <<>>
    /\ md = Null /\ data = Null /\ out = Null
    /\ reads = <<>> /\ written = <<>> /\ console = <<>>
    /\ exitCode = -1 /\ fsError = Null /\ thrown = Null /\ failedAt = ""

SpecCli == InitCli /\ [][NextCli]_vars

-----------------------------------------------------------------------------
(* The claims about parseDigestMarkdown.                                   *)

Cells(line) == FilterNonEmpty(MapTrim(Split(Trim(line), <<"|">>)))

IsTableRow(line) == StartsWith(Trim(line), <<"|">>)

\* A row of the form |---|---|---|---|: cells of dashes only.
IsAlignmentRow(line) ==
    /\ IsTableRow(line)
    /\ Len(Cells(line)) >= 4
    /\ \A c \in 1..Len(Cells(line)) : RemoveChar(Cells(line)[c], "-") = <<>>

IsStatsHeader(line) ==
    StartsWith(Trim(line), sH2) /\ Includes(Trim(line), sGailan)

\* The input ends with a stats header followed by a table of a header row, an
\* alignment row and one data row of at least four cells, its only table rows.
StatsTableAt(k) ==
    /\ k + 3 = Len(lines)
    /\ IsStatsHeader(lines[k])
    /\ \A j \in 1..(k - 1) : ~IsTableRow(lines[j])
    /\ IsTableRow(lines[k + 1]) /\ ~IsAlignmentRow(lines[k + 1])
    /\ IsAlignmentRow(lines[k + 2])
    /\ IsTableRow(lines[k + 3]) /\ ~IsAlignmentRow(lines[k + 3])
    /\ Len(Cells(lines[k + 3])) >= 4

StatsOfRow(line) ==
    Some([sources |-> Cells(line)[1], articles |-> Cells(line)[2],
          timeRange |-> Cells(line)[3], selected |-> Cells(line)[4]])

\* C1: when the stats table is a header row, an alignment row of the form
\* |---|---|---|---| and exactly one data row of at least four cells, the
\* returned stats holds the four cells of the data row.
C1_StatsFromDataRow ==
    pc = "returned" =>
        \A k \in 1..(Len(lines) - 3) :
            StatsTableAt(k) => result.stats = StatsOfRow(lines[k + 3])

\* The line the loop is about to read, trimmed (defined while i < Len(lines)).
NextTrimmed == Trim(lines[i + 1])

AtLine == pc = "loop" /\ i < Len(lines)

ParsedFields ==
    <<result, section, currentTopArticle, currentCategory, currentCatArticle,
      statsTableLineCount>>

IsFenceLine(line) == StartsWith(Trim(line), sFence)
IsBareFence(line) == Trim(line) = sFence

\* From the input alone: line k comes after a fence line that can only be an
\* opening one (a fence with text after it, such as ```mermaid or ```t, or
\* the first fence line of the input) with no bare fence in between.
AfterOpeningFence(k) ==
    \E j \in 1..(k - 1) :
        /\ IsFenceLine(lines[j])
        /\ ~IsBareFence(lines[j]) \/ (\A h \in 1..(j - 1) : ~IsFenceLine(lines[h]))
        /\ \A h \in (j + 1)..(k - 1) : ~IsBareFence(lines[h])

AllArticlesTitled(articles) ==
    \A k \in 1..Len(articles) : articles[k].titleZh # <<>>

\* C3: in every state every top article and every article of every category
\* (retained or being built) has a title; every retained category has at
\* least one article, each started by a valid article heading below the
\* category's header: a header with no valid article heading adds nothing.
C3_RetainedRecordsValid ==
    /\ AllArticlesTitled(result.topArticles)
    /\ currentCategory # Null => AllArticlesTitled(currentCategory[1].articles)
    /\ \A c \in 1..Len(result.categories) :
          LET cat == result.categories[c]
          IN  /\ Len(cat.articles) >= 1
              /\ AllArticlesTitled(cat.articles)
              /\ \A a \in 1..Len(cat.articles) :
                    /\ cat.articles[a].srcLine > cat.srcLine
                    /\ ArticleMatch(Trim(lines[cat.articles[a].srcLine])) > 0

IsCategoryHeader(line) ==
    LET t == Trim(line)
    IN  /\ StartsWith(t, sH2)
        /\ ~Includes(t, sKandian) /\ ~Includes(t, sBidu) /\ ~Includes(t, sGailan)

\* The parse returned one category, and the input has a category header that
\* is not the header of a retained category.
C3_Witness ==
    /\ pc = "returned"
    /\ Len(result.categories) = 1
    /\ \E k \in 1..Len(lines) :
          IsCategoryHeader(lines[k]) /\ result.categories[1].srcLine # k

Increasing(records) ==
    \A a, b \in 1..Len(records) : a < b => records[a].srcLine < records[b].srcLine

\* The articles of a category are in the order of their headings, below the
\* category's header, with no level-2 header between the two.
ArticlesInPlace(cat) ==
    /\ Increasing(cat.articles)
    /\ \A a \in 1..Len(cat.articles) :
          /\ cat.srcLine < cat.articles[a].srcLine
          /\ \A j \in (cat.srcLine + 1)..(cat.articles[a].srcLine - 1) :
                ~StartsWith(Trim(lines[j]), sH2)

\* C4: topArticles is in the order of the medal lines, each entry with the
\* medal and title of its line; categories is in the order of the level-2
\* headers; the articles of a category are in the order of their headings and
\* belong to the category whose header most recently preceded the heading.
C4_SourceOrderKept ==
    /\ Increasing(result.topArticles)
    /\ \A k \in 1..Len(result.topArticles) :
          LET art == result.topArticles[k]
          IN  /\ art.medal = Head(Trim(lines[art.srcLine]))
              /\ art.titleZh = MedalTitle(Trim(lines[art.srcLine]))
    /\ Increasing(result.categories)
    /\ \A c \in 1..Len(result.categories) :
          /\ IsCategoryHeader(lines[result.categories[c].srcLine])
          /\ ArticlesInPlace(result.categories[c])
    /\ currentCategory # Null => ArticlesInPlace(currentCategory[1])

\* Two top articles were returned, the bronze one before the gold one.
C4_Witness ==
    /\ pc = "returned"
    /\ Len(result.topArticles) = 2
    /\ result.topArticles[1].medal = cBronze
    /\ result.topArticles[2].medal = cGold

\* The line the loop is about to read is handled as a level-2 header
\* (lines 223-246).
AtSectionHeader ==
    /\ AtLine
    /\ ~SkipBlocks(Locals, NextTrimmed).continued
    /\ ~TitleAndSubtitle(Locals, NextTrimmed).continued
    /\ StartsWith(NextTrimmed, sH2)

\* C9: after a level-2 header of any kind is handled, no top article, category
\* article or category started before the header is still in progress.
C9_HeaderFlushesAll ==
    [][ AtSectionHeader =>
          /\ currentTopArticle' = Null
          /\ currentCatArticle' = Null
          /\ currentCategory' # Null => currentCategory'[1].srcLine = i + 1 ]_vars

\* The line the loop is about to read is outside the skipped blocks, is no
\* title, subtitle, level-2 header or rule, starts and ends with '*' and is
\* one of the last 9 lines.
AtFooterLine ==
    /\ AtLine
    /\ ~SkipBlocks(Locals, NextTrimmed).continued
    /\ ~TitleAndSubtitle(Locals, NextTrimmed).continued
    /\ ~StartsWith(NextTrimmed, sH2)
    /\ NextTrimmed # sRule
    /\ StartsWith(NextTrimmed, <<"*">>) /\ EndsWith(NextTrimmed, <<"*">>)
    /\ i + FooterWindow >= Len(lines)

\* C10: such a line is appended to footer, whatever the section is and
\* whatever is in progress.
C10_FooterInEverySection ==
    [][ AtFooterLine =>
          result'.footer = result.footer
                             \o (IF result.footer # <<>> THEN <<"\n">> ELSE <<>>)
                             \o stripInlineMarkdown(NextTrimmed) ]_vars

-----------------------------------------------------------------------------
(* The claims about renderWechatHtml.                                      *)

\* The four entities that escapeHtml writes.
Entities == {sAmp, sLt, sGt, sQuot}

\* text holds none of '<', '>', '"', and each '&' of it starts an entity.
IsEscapedText(text) ==
    \A k \in 1..Len(text) :
        /\ text[k] \notin {"<", ">", "\""}
        /\ text[k] = "&" => \E e \in Entities : StartsWith(Drop(text, k - 1), e)

\* The segments of the output that are not literal text of the template.
InsertedText == {html[k].text : k \in {j \in 1..Len(html) : html[j].kind # "template"}}

sScript == <<"s", "c", "r", "i", "p", "t">>

\* C5: in the output of renderWechatHtml no '&', '<', '>' or '"' of a field
\* of the model that carries input text (the category emoji included) is left
\* unescaped, and a title <script> is rendered as &lt;script&gt;.
C5_InputTextEscaped ==
    pc = "rendered" =>
        /\ \A text \in InsertedText : IsEscapedText(text)
        /\ result.title = <<"<">> \o sScript \o <<">">>
               => html[2].text = sLt \o sScript \o sGt

-----------------------------------------------------------------------------
(* The claims about parseCoverData.                                        *)

\* word(count), the word in bold or not: a word without asterisk, parenthesis or
\* space, then digits in parentheses.
IsCountToken(t) ==
    LET q    == FirstAt(t, "(", 1)
        word == RemoveChar(SubSeq(t, 1, q - 1), "*")
    IN  /\ q > 1 /\ q + 1 < Len(t) /\ t[Len(t)] = ")"
        /\ \A k \in (q + 1)..(Len(t) - 1) : IsDigit(t[k])
        /\ word # <<>>
        /\ \A k \in 1..Len(word) : word[k] \notin {"(", ")", " "}

BareWord(t) == RemoveChar(SubSeq(t, 1, FirstAt(t, "(", 1) - 1), "*")

\* The line has the shape word(count) · word(count) [ · word(count) ...].
IsShapedLine(line) ==
    LET tokens == Split(Trim(line), sDotSep)
    IN  Len(tokens) >= 2 /\ \A k \in 1..Len(tokens) : IsCountToken(tokens[k])

FirstShaped == Min({k \in 1..Len(lines) : IsShapedLine(lines[k])})

WordsOfFirstShaped ==
    LET tokens == Split(Trim(lines[FirstShaped]), sDotSep)
    IN  [k \in 1..(IF Len(tokens) < CoverKeywordMax THEN Len(tokens) ELSE CoverKeywordMax)
            |-> BareWord(tokens[k])]

\* C6: topKeywords holds the bare words of at most the first 5 tokens of the
\* first line of the shape word(count) · word(count), whatever lines precede
\* it; topKeywords never has more than 5 entries and top3 never more than 3.
C6_KeywordsOfFirstShapedLine ==
    cover # Null =>
        /\ Len(cover[1].topKeywords) <= CoverKeywordMax
        /\ Len(cover[1].top3) <= CoverTopMax
        /\ (\E k \in 1..Len(lines) : IsShapedLine(lines[k]))
               => cover[1].topKeywords = WordsOfFirstShaped

-----------------------------------------------------------------------------
(* The claims about the entry points and the conversions.                  *)

\* The extension of the file an entry point writes.
NewExtension ==
    IF program = "to-wechat-html" THEN sExtHtml
    ELSE IF program = "gen-cover" THEN sExtCoverHtml ELSE sExtPng

\* C7: given an input path and no output path, the output path is the input
\* path with its extension replaced by the entry point's own, so the file
\* written is never the input file; given no input path, the entry point
\* prints the usage message and exits 1 without reading or writing a file.
C7_DefaultOutputIsAnotherFile ==
    /\ (step # "start" /\ Len(argv) = 1) =>
            /\ outputPath # inputPath
            /\ EndsWith(outputPath, NewExtension)
            /\ \A k \in 1..Len(written) : written[k].path # inputPath
    /\ (step # "start" /\ Len(argv) = 0) =>
            /\ console = <<Usage(program)>>
            /\ exitCode = 1
            /\ reads = <<>> /\ written = <<>>

\* C8: convertMarkdownToWechatHtml and generateCoverHtml read, parse, render,
\* write and print in that order, each step on the outcome of the one before;
\* a failed read propagates the error of the file system unchanged and leaves
\* no output file and no success message, a failed write no success message.
C8_SequentialSteps ==
    program \in Conversions =>
        /\ md # Null => reads = <<inputPath>> /\ md = Some(disk)
        /\ data # Null => md # Null
        /\ out # Null => data # Null
        /\ written # <<>> =>
               out # Null /\ written = <<[path |-> outputPath, content |-> out[1]]>>
        /\ HasSuccess =>
               written # <<>> /\ console = <<Success(program, outputPath)>>
        /\ failedAt = "read" =>
               /\ thrown # Null /\ thrown = fsError /\ thrown[1] \in ReadErrors
               /\ md = Null /\ written = <<>> /\ ~HasSuccess
        /\ failedAt = "write" =>
               /\ thrown = fsError /\ written = <<>> /\ ~HasSuccess

\* A conversion read, parsed and rendered its input, and the write failed.
C8_Witness ==
    /\ program \in Conversions
    /\ step = "failed" /\ failedAt = "write"
    /\ out # Null /\ reads = <<inputPath>>

-----------------------------------------------------------------------------
(* The claims about the title, the skipped blocks, the tag cloud, the      *)
(* subtitle and the records of parseDigestMarkdown.                        *)

\* The line the loop is about to read is a level-1 heading outside the skipped
\* blocks.
AtTitleLine ==
    /\ AtLine
    /\ ~SkipBlocks(Locals, NextTrimmed).continued
    /\ IsTitleLine(NextTrimmed)

\* C11: title is set once, by the first level-1 heading line processed outside
\* the skipped blocks; no later line, a level-1 heading included, changes it.
C11_TitleSetOnce ==
    [][ /\ (AtTitleLine /\ result.title = <<>>)
            => result'.title = StripPrefix(NextTrimmed, sH1)
        /\ result.title # <<>> => result'.title = result.title ]_vars

\* C12: in every state of the parse at most one of the three skip-modes
\* (mermaid block, code block, details block) is active.
C12_OneSkipMode ==
    /\ ~(inMermaid /\ inCodeBlock)
    /\ ~(inMermaid /\ inDetails)
    /\ ~(inCodeBlock /\ inDetails)

\* The line the loop is about to read is a bare fence.
AtBareFence == AtLine /\ IsBareFence(lines[i + 1])

\* C13: a code block and a mermaid block each stay open over every line that
\* is not a bare fence and end at the next bare fence; a bare fence that ends
\* one kind of block neither opens nor closes the other kind.
C13_BareFenceCloses ==
    [][ /\ (AtLine /\ ~AtBareFence) =>
              /\ inCodeBlock => inCodeBlock'
              /\ inMermaid => inMermaid'
        /\ AtBareFence =>
              /\ inCodeBlock => ~inCodeBlock'
              /\ inMermaid => ~inMermaid'
              /\ (inCodeBlock /\ ~inMermaid) => ~inMermaid'
              /\ (inMermaid /\ ~inCodeBlock) => ~inCodeBlock' ]_vars

IsTagCloudHeader(trimmed) == StartsWith(trimmed, sH3) /\ Includes(trimmed, sBiaoqian)

\* The section is tagcloud and the line the loop is about to read is non-empty
\* and not a heading.
AtTagCloudContent ==
    /\ AtLine
    /\ section = "tagcloud"
    /\ NextTrimmed # <<>>
    /\ ~StartsWith(NextTrimmed, <<"#">>)

\* Such a line that is, moreover, no horizontal rule and no line of a skipped
\* block (a fence, a <details> line, or a line inside one of the blocks).
AtTagCloudLine ==
    /\ AtTagCloudContent
    /\ NextTrimmed # sRule
    /\ ~SkipBlocks(Locals, NextTrimmed).continued

\* The parts of C14 that are about everything but the captured line: the
\* section becomes tagcloud only from stats, on a level-3 heading with the tag
\* cloud marker; tagCloud is written only on a non-empty line that is not a
\* heading, read in tagcloud; another level-3 heading read in stats changes
\* nothing.
TagCloudFrame ==
    /\ (section # "tagcloud" /\ section' = "tagcloud")
          => AtLine /\ section = "stats" /\ IsTagCloudHeader(NextTrimmed)
    /\ result'.tagCloud # result.tagCloud => AtTagCloudContent
    /\ (AtLine /\ section = "stats" /\ StartsWith(NextTrimmed, sH3)
           /\ ~IsTagCloudHeader(NextTrimmed))
          => UNCHANGED ParsedFields

AtSubtitleLine ==
    /\ AtLine
    /\ ~SkipBlocks(Locals, NextTrimmed).continued
    /\ StartsWith(NextTrimmed, sQuote \o sLaizi)

\* text joined to what was collected so far, with a space.
Joined(sofar, text) == IF sofar = <<>> THEN text ELSE sofar \o <<" ">> \o text

\* C15: subtitle is set only by a block quote with the subtitle prefix read
\* while no section has been entered; a level-2 header enters a section, the
\* section is never unset again and subtitle never changes from then on, and
\* a block quote with the prefix is then content of the current section: a
\* line of the highlights, the summary of the article in progress.
C15_SubtitleBeforeSections ==
    [][ /\ result'.subtitle # result.subtitle => AtSubtitleLine /\ section = ""
        /\ (AtSubtitleLine /\ section = "")
              => result'.subtitle = StripPrefix(NextTrimmed, sQuote)
        /\ (AtLine /\ ~SkipBlocks(Locals, NextTrimmed).continued
               /\ StartsWith(NextTrimmed, sH2)) => section' # ""
        /\ section # "" => section' # "" /\ result'.subtitle = result.subtitle
        /\ (AtSubtitleLine /\ section = "highlights")
              => result'.highlights = Joined(result.highlights, NextTrimmed)
        /\ (AtSubtitleLine /\ section = "top" /\ currentTopArticle # Null)
              => /\ currentTopArticle' # Null
                 /\ currentTopArticle'[1].summary =
                        Joined(currentTopArticle[1].summary,
                               StripPrefix(NextTrimmed, sQuote))
        /\ (AtSubtitleLine /\ section = "category" /\ currentCategory # Null
               /\ currentCatArticle # Null)
              => /\ currentCatArticle' # Null
                 /\ currentCatArticle'[1].summary =
                        Joined(currentCatArticle[1].summary,
                               StripPrefix(NextTrimmed, sQuote)) ]_vars

\* A subtitle was set, a section was entered and a top article started, and a
\* second block quote with the prefix became the summary of that article.
C15_Witness ==
    /\ pc = "loop" /\ i >= 4
    /\ lines[i] = lnSubtitleB /\ lines[i - 1] = lnGold /\ lines[i - 2] = lnTop
    /\ lines[i - 3] = lnSubtitle
    /\ result.subtitle = StripPrefix(lnSubtitle, sQuote)
    /\ currentTopArticle # Null
    /\ currentTopArticle[1].summary = StripPrefix(lnSubtitleB, sQuote)

\* The lines that started the top articles collected so far: those of the model,
\* then the one in progress.
TopSrcLines ==
    [k \in 1..Len(result.topArticles) |-> result.topArticles[k].srcLine]
    \o (IF currentTopArticle # Null THEN <<currentTopArticle[1].srcLine>> ELSE <<>>)

\* For each article of cat, the line of the header of cat and the line of the
\* heading of the article.
ArticlePairs(cat) ==
    [k \in 1..Len(cat.articles) |-> <<cat.srcLine, cat.articles[k].srcLine>>]

\* The same for all category articles collected so far: those of the categories
\* of the model, those of the category in progress, the article in progress.
CatSrcPairs ==
    Flatten([k \in 1..Len(result.categories) |-> ArticlePairs(result.categories[k])])
    \o (IF currentCategory # Null
        THEN ArticlePairs(currentCategory[1])
             \o (IF currentCatArticle # Null
                 THEN << <<currentCategory[1].srcLine, currentCatArticle[1].srcLine>> >>
                 ELSE <<>>)
        ELSE <<>>)

\* The line the loop is about to read is a medal line handled by case 'top'.
AtMedalLine ==
    /\ AtLine
    /\ ~SkipBlocks(Locals, NextTrimmed).continued
    /\ section = "top"
    /\ MedalTitle(NextTrimmed) # <<>>

\* The line the loop is about to read is a numbered level-3 heading handled by
\* case 'category' while a category is open.
AtArticleHeading ==
    /\ AtLine
    /\ ~SkipBlocks(Locals, NextTrimmed).continued
    /\ section = "category"
    /\ currentCategory # Null
    /\ ArticleMatch(NextTrimmed) > 0

====
